---- MODULE Spec2Model ----
(***************************************************************************)
(* OFAC screening server: the screening pipeline of src/checker.js         *)
(* (normalizeText, loadCSVFolder, searchName, takeScreenshot, runChecker)  *)
(* driven by the upload handler and the SSE progress channel of            *)
(* src/server.js.                                                          *)
(*                                                                         *)
(* A JavaScript string is a sequence of one-character strings.             *)
(***************************************************************************)
EXTENDS Integers, Sequences, FiniteSets, TLC

\* ------------------------------------------------------------ bounds
MaxSubjects == 2      \* rows of the uploaded sheet
MaxConns == 2         \* SSE connections opened during one behaviour
MaxNameLen == 3       \* length of a raw subject name (matching specification)
MaxCorpus == 2        \* raw reference cells (matching specification)

\* ------------------------------------------------------------ characters
LowerLetters == <<"a","b","c","d","e","f","g","h","i","j","k","l","m",
                  "n","o","p","q","r","s","t","u","v","w","x","y","z">>
UpperLetters == <<"A","B","C","D","E","F","G","H","I","J","K","L","M",
                  "N","O","P","Q","R","S","T","U","V","W","X","Y","Z">>
Digits == {"0","1","2","3","4","5","6","7","8","9"}
Range(s) == {s[k] : k \in 1..Len(s)}

\* /[\.,\-']/
Punctuation == {".", ",", "-", "'"}
\* /\s/
Whitespace == {" ", "\t", "\n"}

\* String.prototype.toUpperCase, one character
toUpperCase(c) ==
  IF \E k \in 1..26 : LowerLetters[k] = c
  THEN UpperLetters[CHOOSE k \in 1..26 : LowerLetters[k] = c]
  ELSE c

\* the value null / undefined of a cell or a name field
Null == <<"null">>

\* .replace(/[\.,\-']/g, "")
stripPunctuation(s) == SelectSeq(s, LAMBDA c : c \notin Punctuation)

\* .replace(/\s+/g, " ")
RECURSIVE collapseWhitespace(_)
collapseWhitespace(s) ==
  IF s = <<>> THEN <<>>
  ELSE IF Head(s) \in Whitespace
       THEN IF Len(s) > 1 /\ s[2] \in Whitespace
            THEN collapseWhitespace(Tail(s))
            ELSE <<" ">> \o collapseWhitespace(Tail(s))
       ELSE <<Head(s)>> \o collapseWhitespace(Tail(s))

\* .trim()
RECURSIVE trimStart(_)
trimStart(s) ==
  IF s # <<>> /\ Head(s) \in Whitespace THEN trimStart(Tail(s)) ELSE s

RECURSIVE trimEnd(_)
trimEnd(s) ==
  IF s # <<>> /\ s[Len(s)] \in Whitespace
  THEN trimEnd(SubSeq(s, 1, Len(s) - 1)) ELSE s

trim(s) == trimEnd(trimStart(s))

\* the punctuation stripped last, after the trim
normalizeTextStripLast(text) ==
  IF text = Null \/ text = <<>> THEN <<>>
  ELSE stripPunctuation(trim(collapseWhitespace(
         [k \in 1..Len(text) |-> toUpperCase(text[k])])))

\* checker.js normalizeText
normalizeText(text) ==
  IF text = Null \/ text = <<>> THEN <<>>
  ELSE trim(collapseWhitespace(stripPunctuation(
         [k \in 1..Len(text) |-> toUpperCase(text[k])])))

\* String.prototype.split(" "): "" gives [""]
RECURSIVE split(_)
split(s) ==
  IF \A k \in 1..Len(s) : s[k] # " " THEN <<s>>
  ELSE LET p == CHOOSE k \in 1..Len(s) :
                  s[k] = " " /\ \A j \in 1..(k - 1) : s[j] # " "
       IN <<SubSeq(s, 1, p - 1)>> \o split(SubSeq(s, p + 1, Len(s)))

\* a whole-word comparison in place of the prefix test
startsWithEquals(ew, pw) == ew = pw

\* String.prototype.startsWith
startsWith(ew, pw) ==
  Len(pw) <= Len(ew) /\ SubSeq(ew, 1, Len(pw)) = pw

\* the concatenation of a sequence of sequences
RECURSIVE flatten(_)
flatten(ss) == IF ss = <<>> THEN <<>> ELSE Head(ss) \o flatten(Tail(ss))

\* a file of the folder: its name ends in .csv or not, and its cell values
\* in reading order (the header row is not data)
csvFilesOf(folder) == SelectSeq(folder, LAMBDA f : f.csv)

\* checker.js loadCSVFolder, lines 32-47: every cell of every .csv file,
\* normalized, the empty ones dropped
normalizedCells(folder) ==
  SelectSeq(
    [k \in 1..Len(flatten([j \in 1..Len(csvFilesOf(folder)) |->
                             csvFilesOf(folder)[j].cells])) |->
       normalizeText(flatten([j \in 1..Len(csvFilesOf(folder)) |->
                             csvFilesOf(folder)[j].cells])[k])],
    LAMBDA n : n # <<>>)

\* only the missing-files check, without the zero-entries check
loadCSVFolderThrowsFilesOnly(folder) == Len(csvFilesOf(folder)) = 0

\* checker.js loadCSVFolder, the two throws (lines 30 and 49)
loadCSVFolderThrows(folder) ==
  \/ Len(csvFilesOf(folder)) = 0
  \/ Len(normalizedCells(folder)) = 0

\* checker.js loadCSVFolder, the returned entries (lines 51-55)
loadCSVFolder(folder) ==
  [k \in 1..Len(normalizedCells(folder)) |->
     [id |-> k, name |-> normalizedCells(folder)[k],
      words |-> split(normalizedCells(folder)[k])]]

\* score === 1 for score = matched / words (0/0 is NaN, never 1)
scoreIsOne(matched, words) == words # 0 /\ matched = words

\* checker.js searchName
searchName(publisherName, entries) ==
  LET pubWords == split(normalizeText(publisherName))
      matchedWords(entry) ==
        SelectSeq(pubWords, LAMBDA pw :
          \E j \in 1..Len(entry.words) : startsWith(entry.words[j], pw))
      kept == SelectSeq(entries, LAMBDA entry :
                scoreIsOne(Len(matchedWords(entry)), Len(pubWords)))
  IN [k \in 1..Len(kept) |->
        [id |-> kept[k].id, matchedName |-> kept[k].name, score |-> 1]]

\* ------------------------------------------------------------ rows
DigitChars == <<"0","1","2","3","4","5","6","7","8","9">>

\* Number to decimal string, as a template literal prints i + 1
RECURSIVE decimal(_)
decimal(n) ==
  IF n < 10 THEN <<DigitChars[n + 1]>>
  ELSE decimal(n \div 10) \o <<DigitChars[(n % 10) + 1]>>

\* m.score.toFixed(2) for the whole-number scores searchName returns
toFixed2(score) == decimal(score) \o <<".", "0", "0">>

\* checker.js line 13
MAX_CELL_LENGTH == 32000

TruncationMarker ==
  <<" ", ".", ".", ".", "[", "t", "r", "u", "n", "c", "a", "t", "e", "d", "]">>

IsAlnum(c) == c \in Range(LowerLetters) \cup Range(UpperLetters) \cup Digits

\* checker.js line 149: (pub.Name || "EMPTY").replace(/[^a-zA-Z0-9]/g, "_")
safeName(name) ==
  LET n == IF name = <<>> \/ name = Null THEN <<"E","M","P","T","Y">> ELSE name
  IN [k \in 1..Len(n) |-> IF IsAlnum(n[k]) THEN n[k] ELSE "_"]

\* a file name without the ordinal
artifactNameNoOrdinal(name, ord, ext) == safeName(name) \o ext

\* checker.js lines 160 and 167: `${safeName}_${i + 1}` + extension
artifactName(name, ord, ext) == safeName(name) \o <<"_">> \o decimal(ord) \o ext

ExtPng == <<".", "p", "n", "g">>
ExtJson == <<".", "j", "s", "o", "n">>

\* checker.js line 182
screenshotLink(name, ord) ==
  <<".", "/", "s", "c", "r", "e", "e", "n", "s", "h", "o", "t", "s", "/">>
    \o artifactName(name, ord, ExtPng)

\* Array.prototype.join("; ")
RECURSIVE join(_)
join(parts) ==
  IF parts = <<>> THEN <<>>
  ELSE IF Len(parts) = 1 THEN parts[1]
  ELSE parts[1] \o <<";", " ">> \o join(Tail(parts))

\* checker.js lines 184-190, with the limit as a parameter
matchesStringMax(ms, max) ==
  LET str == join([k \in 1..Len(ms) |->
                ms[k].matchedName
                  \o <<" ", "(", "s", "c", "o", "r", "e", ":", " ">>
                  \o toFixed2(ms[k].score) \o <<")">>])
  IN IF Len(str) > max THEN SubSeq(str, 1, max) \o TruncationMarker ELSE str

\* a cut one character too early
matchesStringOffByOne(ms) == matchesStringMax(ms, MAX_CELL_LENGTH - 1)

matchesString(ms) == matchesStringMax(ms, MAX_CELL_LENGTH)

\* an empty Screenshot cell
EmptyCell == [text |-> "", hyperlink |-> <<>>]

\* checker.js line 197: the Screenshot cell of the row
screenshotCell(name, ord) ==
  [text |-> "View Screenshot", hyperlink |-> screenshotLink(name, ord)]

\* a row whose status is MATCH whatever the number of matches
RowAlwaysMatch(name, ms, ord) ==
  [Publisher |-> name,
   MatchStatus |-> IF Len(ms) >= 0 THEN "MATCH" ELSE "CLEAR",
   MatchCount |-> Len(ms),
   Matches |-> matchesString(ms),
   Screenshot |-> screenshotCell(name, ord)]

\* checker.js lines 156 and 192-198: the row pushed for a subject
Row(name, ms, ord) ==
  [Publisher |-> name,
   MatchStatus |-> IF Len(ms) > 0 THEN "MATCH" ELSE "CLEAR",
   MatchCount |-> Len(ms),
   Matches |-> matchesString(ms),
   Screenshot |-> screenshotCell(name, ord)]

\* ------------------------------------------------------------ inputs
\* raw subject names of the uploaded sheet (a row without a name field is "")
NameJohnSmit == <<"J","o","h","n"," ","S","m","i","t">>
\* matches no entry, and is sanitized to the same file name as NameJohnSmit
NameJohnHyphenSmit == <<"J","o","h","n","-","S","m","i","t">>
NamePool == {<<>>, NameJohnSmit, NameJohnHyphenSmit}

\* raw cells of the reference files
CellJohnSmith == <<"J","O","H","N"," ","S","M","I","T","H">>
CellJohnSmithson == <<"J","o","h","n"," "," ","S","m","i","t","h","-","s","o","n">>
CellDot == <<".">>

\* files a reference folder may hold: csv says whether the name ends in
\* ".csv", cells are the cell values in reading order
FileNotes == [csv |-> FALSE, cells |-> <<CellJohnSmith>>]
FileBlank == [csv |-> TRUE, cells |-> <<CellDot, <<" ", "-">>, <<>>>>]
FileSdn == [csv |-> TRUE, cells |-> <<CellJohnSmith, CellDot>>]
FileAlt == [csv |-> TRUE, cells |-> <<CellJohnSmithson>>]

\* the contents CSV_FOLDER may have
FolderPool ==
  { <<>>, <<FileNotes>>, <<FileBlank, FileNotes>>, <<FileSdn, FileNotes, FileAlt>> }

SeqsUpTo(S, n) == UNION {[1..k -> S] : k \in 0..n}

\* ------------------------------------------------------------ state
VARIABLES
  hasFile,           \* server.js: req.file of the POST /upload request
  csvFolder,         \* the files of CSV_FOLDER
  publishers,        \* runChecker: publishers[k] is the Name of row k
  pc,                \* where the upload handler / runChecker is suspended
  failure,           \* what made the run fail, "none" if nothing did
  screeningEntries,  \* runChecker: the loaded corpus
  i,                 \* runChecker: the loop index (subjects finished)
  matches,           \* runChecker: searchName's result for the current subject
  results,           \* runChecker: the rows built so far
  browser,           \* "none", "open" or "closed"
  closes,            \* number of browser.close() calls
  attempted,         \* ordinals takeScreenshot was called for
  captured,          \* ordinals whose screenshot file was written
  jsonSaved,         \* ordinals whose raw-match JSON file was written
  reportWritten,     \* OFAC_Results.xlsx was written
  emitted,           \* the progressCallback calls made, in order
  currentSSE,        \* server.js currentSSE: 0 is null, else a connection
  conns,             \* state of each SSE connection
  sseLog,            \* the events written to each SSE connection
  response,          \* the answer to POST /upload
  phases,            \* runChecker: <<phase, ordinal>> of each match, capture
                     \* call and row push, in order
  sessionLog,        \* the page steps issued in the capture in progress;
                     \* after it, <<"catch">> if its snapshot rejected
  waited,            \* how the waitForSelector of that capture ended
  field,             \* the page: text in #ctl00_MainContent_txtLastName
  submitted,         \* the text the search click sent for that subject
  written,           \* the artifact files written, in order: path and ordinal
  normalized         \* a value followed by its successive normalizeText images
vars == <<hasFile, csvFolder, publishers, pc, failure, screeningEntries, i,
          matches, results, browser, closes, attempted, captured, jsonSaved,
          reportWritten, emitted, currentSSE, conns, sseLog, response,
          phases, sessionLog, waited, field, submitted, written, normalized>>

\* what the page session and the file system hold
sessionVars == <<sessionLog, waited, field, submitted>>
traceVars == <<phases, sessionVars, written>>

inputVars == <<hasFile, csvFolder, publishers>>
runVars == <<pc, failure, screeningEntries, i, matches, results, browser,
             closes, attempted, captured, jsonSaved, reportWritten, emitted,
             response>>
loopVars == <<screeningEntries, browser, closes, reportWritten>>

total == Len(publishers)

Init ==
  /\ hasFile \in BOOLEAN
  /\ csvFolder \in FolderPool
  /\ publishers \in SeqsUpTo(NamePool, MaxSubjects)
  /\ pc = "upload"
  /\ failure = "none"
  /\ screeningEntries = <<>>
  /\ i = 0
  /\ matches = <<>>
  /\ results = <<>>
  /\ browser = "none"
  /\ closes = 0
  /\ attempted = {}
  /\ captured = {}
  /\ jsonSaved = {}
  /\ reportWritten = FALSE
  /\ emitted = <<>>
  /\ currentSSE = 0
  /\ conns = [c \in 1..MaxConns |-> "unopened"]
  /\ sseLog = [c \in 1..MaxConns |-> <<>>]
  /\ response = "none"
  /\ phases = <<>>
  /\ sessionLog = <<>>
  /\ waited = "none"
  /\ field = <<>>
  /\ submitted = <<>>
  /\ written = <<>>
  /\ normalized = <<>>

\* ------------------------------------------------------------ progress channel
\* the zero-based loop index passed as current
progressEventZeroBased(idx, tot) == [done |-> FALSE, current |-> idx, total |-> tot]

\* checker.js lines 151-152 and 170-176: the arguments of progressCallback
progressEvent(idx, tot) == [done |-> FALSE, current |-> idx + 1, total |-> tot]

\* server.js line 85
doneEvent == [done |-> TRUE, current |-> 0, total |-> 0]

\* server.js lines 54-66: the callback passed to runChecker
progressCallback(log, sse, ev) ==
  IF sse # 0 THEN [log EXCEPT ![sse] = Append(@, ev)] ELSE log

\* the terminal notification without currentSSE = null
notifyDoneKeepAttached(log, cs, sse) ==
  IF sse # 0
  THEN [log |-> [log EXCEPT ![sse] = Append(@, doneEvent)],
        conns |-> [cs EXCEPT ![sse] = "ended"],
        currentSSE |-> sse]
  ELSE [log |-> log, conns |-> cs, currentSSE |-> sse]

\* server.js lines 83-89: log, connection states and currentSSE after the
\* terminal notification
notifyDone(log, cs, sse) ==
  IF sse # 0
  THEN [log |-> [log EXCEPT ![sse] = Append(@, doneEvent)],
        conns |-> [cs EXCEPT ![sse] = "ended"],
        currentSSE |-> 0]
  ELSE [log |-> log, conns |-> cs, currentSSE |-> sse]

\* server.js lines 26-34: GET /upload-progress
SSEConnect ==
  /\ \E c \in 1..MaxConns :
       /\ conns[c] = "unopened"
       /\ \A d \in 1..(c - 1) : conns[d] # "unopened"
       /\ conns' = [conns EXCEPT ![c] = "open"]
       /\ currentSSE' = c
  /\ UNCHANGED <<inputVars, traceVars, normalized, runVars, sseLog>>

\* server.js lines 36-39: the request's close event
SSEClose ==
  /\ \E c \in 1..MaxConns :
       /\ conns[c] \in {"open", "ended"}
       /\ conns' = [conns EXCEPT ![c] = "closed"]
  /\ currentSSE' = 0
  /\ UNCHANGED <<inputVars, traceVars, normalized, runVars, sseLog>>

\* ------------------------------------------------------------ the run
\* server.js lines 93-96: runChecker rejected
Fail(kind) ==
  /\ pc' = "failed"
  /\ failure' = kind
  /\ response' = "500"

\* server.js lines 43-51, checker.js lines 103-104
Upload ==
  /\ pc = "upload"
  /\ IF hasFile
     THEN pc' = "load" /\ response' = response
     ELSE pc' = "rejected" /\ response' = "400"
  /\ UNCHANGED <<inputVars, traceVars, normalized, failure, screeningEntries, i, matches, results,
                 browser, closes, attempted, captured, jsonSaved,
                 reportWritten, emitted, currentSSE, conns, sseLog>>

\* checker.js lines 104-142: the corpus is loaded (or loadCSVFolder throws),
\* the sheet is read, the folders are made and the browser launch is issued
LoadDone ==
  /\ pc = "load"
  /\ IF loadCSVFolderThrows(csvFolder)
     THEN Fail("config") /\ screeningEntries' = screeningEntries
     ELSE /\ screeningEntries' = loadCSVFolder(csvFolder)
          /\ pc' = "launch"
          /\ UNCHANGED <<failure, response>>
  /\ UNCHANGED <<inputVars, traceVars, normalized, i, matches, results, browser, closes, attempted,
                 captured, jsonSaved, reportWritten, emitted, currentSSE,
                 conns, sseLog>>

\* checker.js lines 132-143: puppeteer.launch settles
LaunchDone ==
  /\ pc = "launch"
  /\ \E ok \in BOOLEAN :
       IF ok
       THEN browser' = "open" /\ pc' = "newPage" /\ UNCHANGED <<failure, response>>
       ELSE Fail("launch") /\ browser' = browser
  /\ UNCHANGED <<inputVars, traceVars, normalized, screeningEntries, i, matches, results, closes,
                 attempted, captured, jsonSaved, reportWritten, emitted,
                 currentSSE, conns, sseLog>>

\* checker.js line 147: the loop test
afterSubject(n, tot) == IF n < tot THEN "loop" ELSE "close"

\* browser.newPage with its rejection logged and the loop entered anyway
NewPageDoneIgnoresFailure ==
  /\ pc = "newPage"
  /\ \E ok \in BOOLEAN :
       /\ pc' = afterSubject(0, total)
       /\ failure' = IF ok THEN failure ELSE "newPage"
       /\ response' = response
  /\ UNCHANGED <<inputVars, traceVars, normalized, screeningEntries, i, matches, results, browser,
                 closes, attempted, captured, jsonSaved, reportWritten,
                 emitted, currentSSE, conns, sseLog>>

\* checker.js lines 143-147: browser.newPage settles
NewPageDone ==
  /\ pc = "newPage"
  /\ \E ok \in BOOLEAN :
       IF ok
       THEN pc' = afterSubject(0, total) /\ UNCHANGED <<failure, response>>
       ELSE Fail("newPage")
  /\ UNCHANGED <<inputVars, traceVars, normalized, screeningEntries, i, matches, results, browser,
                 closes, attempted, captured, jsonSaved, reportWritten,
                 emitted, currentSSE, conns, sseLog>>

\* the loop body with rows for empty names left out
FinishSubjectSkipEmpty(ms) ==
  /\ results' = IF publishers[i + 1] = <<>> THEN results
                ELSE Append(results, Row(publishers[i + 1], ms, i + 1))
  /\ i' = i + 1
  /\ pc' = afterSubject(i + 1, total)
  /\ UNCHANGED <<failure, response>>

\* checker.js lines 182-199: the row is pushed and the loop goes on
FinishSubject(ms) ==
  /\ results' = Append(results, Row(publishers[i + 1], ms, i + 1))
  /\ i' = i + 1
  /\ pc' = afterSubject(i + 1, total)
  /\ UNCHANGED <<failure, response>>

\* checker.js lines 160-161: the raw-match JSON file of a subject (the
\* folder stands as one symbol of the path)
jsonFile(name, ord) ==
  [path |-> <<"responses", "/">> \o artifactName(name, ord, ExtJson),
   ord |-> ord]

\* checker.js lines 165-168: the screenshot file of a subject
screenshotFile(name, ord) ==
  [path |-> <<"screenshots", "/">> \o artifactName(name, ord, ExtPng),
   ord |-> ord]

\* checker.js line 152: the first progressCallback call throws; nothing
\* catches it and runChecker rejects
BeginSubjectEmitThrows ==
  /\ emitted' = Append(emitted, progressEvent(i, total))
  /\ Fail("emit")
  /\ UNCHANGED <<i, matches, results, attempted, captured, jsonSaved, sseLog,
                 phases, written>>

\* checker.js lines 152-161: fs.writeFileSync throws; nothing catches it
BeginSubjectJsonThrows ==
  /\ emitted' = Append(emitted, progressEvent(i, total))
  /\ sseLog' = progressCallback(sseLog, currentSSE, progressEvent(i, total))
  /\ matches' = searchName(publishers[i + 1], screeningEntries)
  /\ phases' = Append(phases, <<"match", i + 1>>)
  /\ Fail("json")
  /\ UNCHANGED <<i, results, attempted, captured, jsonSaved, written>>

\* checker.js lines 152-180: the second progressCallback call throws inside
\* the try block, so takeScreenshot is not called
BeginSubjectSecondEmitThrows ==
  /\ emitted' = emitted \o <<progressEvent(i, total), progressEvent(i, total)>>
  /\ sseLog' = progressCallback(sseLog, currentSSE, progressEvent(i, total))
  /\ matches' = searchName(publishers[i + 1], screeningEntries)
  /\ jsonSaved' = jsonSaved \cup {i + 1}
  /\ written' = Append(written, jsonFile(publishers[i + 1], i + 1))
  /\ phases' = phases \o << <<"match", i + 1>>, <<"row", i + 1>> >>
  /\ FinishSubject(matches')
  /\ UNCHANGED <<attempted, captured>>

\* checker.js lines 152-177 and 76-78: both events are emitted, the JSON is
\* written and takeScreenshot is called; it returns at once for an empty
\* name and otherwise issues page.goto
BeginSubjectCapture ==
  /\ emitted' = emitted \o <<progressEvent(i, total), progressEvent(i, total)>>
  /\ sseLog' = progressCallback(
                 progressCallback(sseLog, currentSSE, progressEvent(i, total)),
                 currentSSE, progressEvent(i, total))
  /\ matches' = searchName(publishers[i + 1], screeningEntries)
  /\ jsonSaved' = jsonSaved \cup {i + 1}
  /\ written' = Append(written, jsonFile(publishers[i + 1], i + 1))
  /\ attempted' = attempted \cup {i + 1}
  /\ IF publishers[i + 1] = <<>>
     THEN /\ FinishSubject(matches')
          /\ phases' = phases \o << <<"match", i + 1>>, <<"capture", i + 1>>,
                                    <<"row", i + 1>> >>
     ELSE /\ pc' = "goto" /\ UNCHANGED <<i, results, failure, response>>
          /\ phases' = phases \o << <<"match", i + 1>>, <<"capture", i + 1>> >>
  /\ UNCHANGED captured

\* checker.js lines 148-177: one pass of the loop body up to its first await
BeginSubject ==
  /\ pc = "loop"
  /\ \/ BeginSubjectEmitThrows
     \/ BeginSubjectJsonThrows
     \/ BeginSubjectSecondEmitThrows
     \/ BeginSubjectCapture
  /\ sessionLog' = IF pc' = "goto" THEN <<"goto">> ELSE <<>>
  /\ waited' = "none"
  /\ submitted' = <<>>
  /\ UNCHANGED <<inputVars, loopVars, currentSSE, conns, field, normalized>>

\* a step of takeScreenshot settles: the next one is issued, or the step
\* rejects and the catch of checker.js lines 178-180 takes over
SessionStep(from, to) ==
  /\ pc = from
  /\ \E ok \in BOOLEAN :
       IF ok
       THEN /\ pc' = to /\ UNCHANGED <<i, results, failure, response>>
            /\ sessionLog' = Append(sessionLog, to)
            /\ phases' = phases
       ELSE /\ FinishSubject(matches)
            /\ sessionLog' = <<>>
            /\ phases' = Append(phases, <<"row", i + 1>>)
  /\ UNCHANGED <<inputVars, loopVars, matches, attempted, captured, jsonSaved,
                 emitted, currentSSE, conns, sseLog, waited, written,
                 normalized>>

\* checker.js line 78: the page is loaded anew; its search field is empty,
\* or shows the text the session last held when the form state is restored
GotoDone ==
  /\ SessionStep("goto", "evaluate")
  /\ IF pc' = "evaluate" THEN field' \in {<<>>, field} ELSE field' = field
  /\ UNCHANGED submitted

\* page.evaluate without the assignment input.value = ""
EvaluateDoneNoClear ==
  /\ SessionStep("evaluate", "type")
  /\ UNCHANGED <<field, submitted>>

\* checker.js lines 81-84: the search field is cleared
EvaluateDone ==
  /\ SessionStep("evaluate", "type")
  /\ field' = IF pc' = "type" THEN <<>> ELSE field
  /\ UNCHANGED submitted

\* checker.js line 86: the raw name is typed after what the field holds
TypeDone ==
  /\ SessionStep("type", "click")
  /\ field' = IF pc' = "click" THEN field \o publishers[i + 1] ELSE field
  /\ UNCHANGED submitted

\* checker.js line 87: the click sends the content of the field
ClickDone ==
  /\ SessionStep("click", "wait")
  /\ submitted' = IF pc' = "wait" THEN field ELSE submitted
  /\ UNCHANGED field

\* waitForSelector with its rejection left to the catch of lines 178-180
WaitDoneTimeoutRejects ==
  /\ pc = "wait"
  /\ \E found \in BOOLEAN :
       /\ waited' = IF found THEN "found" ELSE "timeout"
       /\ IF found
          THEN /\ pc' = "screenshot"
               /\ sessionLog' = Append(sessionLog, "screenshot")
               /\ UNCHANGED <<i, results, failure, response, phases>>
          ELSE /\ FinishSubject(matches)
               /\ sessionLog' = <<>>
               /\ phases' = Append(phases, <<"row", i + 1>>)
  /\ UNCHANGED <<inputVars, loopVars, matches, attempted, captured, jsonSaved,
                 emitted, currentSSE, conns, sseLog, field, submitted,
                 written, normalized>>

\* checker.js lines 89-93: the results table appears, or the wait rejects
\* and its own catch swallows the rejection; page.screenshot is issued
WaitDone ==
  /\ pc = "wait"
  /\ \E found \in BOOLEAN : waited' = IF found THEN "found" ELSE "timeout"
  /\ pc' = "screenshot"
  /\ sessionLog' = Append(sessionLog, "screenshot")
  /\ UNCHANGED <<inputVars, loopVars, i, matches, results, failure, response,
                 attempted, captured, jsonSaved, emitted, currentSSE, conns,
                 sseLog, phases, field, submitted, written, normalized>>

\* checker.js lines 93-94
ScreenshotDone ==
  /\ pc = "screenshot"
  /\ \E ok \in BOOLEAN :
       /\ captured' = IF ok THEN captured \cup {i + 1} ELSE captured
       /\ written' = IF ok
                     THEN Append(written, screenshotFile(publishers[i + 1], i + 1))
                     ELSE written
       /\ sessionLog' = IF ok THEN <<>> ELSE <<"catch">>
  /\ submitted' = <<>>
  /\ FinishSubject(matches)
  /\ phases' = Append(phases, <<"row", i + 1>>)
  /\ waited' = "none"
  /\ UNCHANGED <<inputVars, loopVars, matches, attempted, jsonSaved, emitted,
                 currentSSE, conns, sseLog, field, normalized>>

\* checker.js lines 201-232: browser.close settles and the page is gone, the
\* report is written and runChecker returns; server.js lines 70-77 start
\* the archive
CloseDone ==
  /\ pc = "close"
  /\ browser' = "closed"
  /\ closes' = closes + 1
  /\ reportWritten' = TRUE
  /\ pc' = "zip"
  /\ sessionLog' = <<>> /\ waited' = "none"
  /\ field' = <<>> /\ submitted' = <<>>
  /\ UNCHANGED <<inputVars, phases, written, normalized, failure, screeningEntries, i, matches, results,
                 attempted, captured, jsonSaved, emitted, currentSSE, conns,
                 sseLog, response>>

\* server.js lines 77-96: archive.finalize settles; the terminal event is
\* written if a consumer is attached and the POST is answered
ZipDone ==
  /\ pc = "zip"
  /\ \E ok \in BOOLEAN :
       IF ok
       THEN /\ sseLog' = notifyDone(sseLog, conns, currentSSE).log
            /\ conns' = notifyDone(sseLog, conns, currentSSE).conns
            /\ currentSSE' = notifyDone(sseLog, conns, currentSSE).currentSSE
            /\ response' = "json"
            /\ pc' = "done"
            /\ failure' = failure
       ELSE Fail("zip") /\ UNCHANGED <<currentSSE, conns, sseLog>>
  /\ UNCHANGED <<inputVars, traceVars, normalized, screeningEntries, i, matches, results, browser,
                 closes, attempted, captured, jsonSaved, reportWritten,
                 emitted>>

Next ==
  \/ Upload
  \/ LoadDone
  \/ LaunchDone
  \/ NewPageDone
  \/ BeginSubject
  \/ GotoDone
  \/ EvaluateDone
  \/ TypeDone
  \/ ClickDone
  \/ WaitDone
  \/ ScreenshotDone
  \/ CloseDone
  \/ ZipDone
  \/ SSEConnect
  \/ SSEClose

Spec == Init /\ [][Next]_vars

\* One upload with no request to /upload-progress: currentSSE stays null
\* (server.js line 24) and both callback calls and the terminal notification
\* write nothing. SSEConnect and SSEClose change currentSSE, conns and sseLog
\* only, and no action reads these three into another variable, so a
\* predicate over the other variables holds under Spec exactly if it holds
\* under SpecRun.
RunNext ==
  \/ Upload
  \/ LoadDone
  \/ LaunchDone
  \/ NewPageDone
  \/ BeginSubject
  \/ GotoDone
  \/ EvaluateDone
  \/ TypeDone
  \/ ClickDone
  \/ WaitDone
  \/ ScreenshotDone
  \/ CloseDone
  \/ ZipDone

SpecRun == Init /\ [][RunNext]_vars

\* ------------------------------------------------------------ matching alone
\* loadCSVFolder and searchName applied to every subject name of at most
\* MaxNameLen characters and every corpus of at most MaxCorpus raw cells
MatchChars == {"a", "B", " ", "."}

MatchCellPool ==
  { <<"a", "b", " ", "B">>, <<"B">>, <<"A", ".", "a">>, <<"-">> }

MatchInit ==
  /\ hasFile = TRUE
  /\ \E cells \in SeqsUpTo(MatchCellPool, MaxCorpus) :
       csvFolder = <<[csv |-> TRUE, cells |-> cells]>>
  /\ \E name \in SeqsUpTo(MatchChars, MaxNameLen) : publishers = <<name>>
  /\ pc = "matchLoad"
  /\ failure = "none"
  /\ screeningEntries = <<>>
  /\ i = 0
  /\ matches = <<>>
  /\ results = <<>>
  /\ browser = "none"
  /\ closes = 0
  /\ attempted = {}
  /\ captured = {}
  /\ jsonSaved = {}
  /\ reportWritten = FALSE
  /\ emitted = <<>>
  /\ currentSSE = 0
  /\ conns = [c \in 1..MaxConns |-> "unopened"]
  /\ sseLog = [c \in 1..MaxConns |-> <<>>]
  /\ response = "none"
  /\ phases = <<>>
  /\ sessionLog = <<>>
  /\ waited = "none"
  /\ field = <<>>
  /\ submitted = <<>>
  /\ written = <<>>
  /\ normalized = <<>>

\* checker.js line 104: loadCSVFolder(CSV_FOLDER)
MatchLoad ==
  /\ pc = "matchLoad"
  /\ IF loadCSVFolderThrows(csvFolder)
     THEN pc' = "matchFailed" /\ failure' = "config"
          /\ screeningEntries' = screeningEntries
     ELSE pc' = "matchSearch" /\ failure' = failure
          /\ screeningEntries' = loadCSVFolder(csvFolder)
  /\ UNCHANGED <<inputVars, traceVars, normalized, i, matches, results, browser, closes, attempted,
                 captured, jsonSaved, reportWritten, emitted, currentSSE,
                 conns, sseLog, response>>

\* checker.js lines 155-156 and 192-198: searchName(pub.Name, screeningEntries)
\* and the row built from its result
MatchSearch ==
  /\ pc = "matchSearch"
  /\ matches' = searchName(publishers[1], screeningEntries)
  /\ results' = <<Row(publishers[1], matches', 1)>>
  /\ pc' = "matchDone"
  /\ UNCHANGED <<inputVars, traceVars, normalized, failure, screeningEntries, i, browser, closes,
                 attempted, captured, jsonSaved, reportWritten, emitted,
                 currentSSE, conns, sseLog, response>>

MatchNext == MatchLoad \/ MatchSearch

SpecMatch == MatchInit /\ [][MatchNext]_vars

\* ------------------------------------------------------------ properties
\* runChecker has left the loop: the rows are what the report is built from
ReportBuilding == pc \in {"close", "zip", "done"} \/ reportWritten

\* C1: whatever captures failed, a run that reaches report building has
\* exactly one row per subject, in input order, row k carrying the name of
\* subject k; before that there is one row per finished subject.
C1_OneRowPerSubject ==
  /\ Len(results) = i
  /\ \A k \in 1..Len(results) : results[k].Publisher = publishers[k]
  /\ ReportBuilding => Len(results) = total

\* C1 witness: the report of two subjects is written although the capture of
\* the first (a non-empty name) failed and the second succeeded
C1_Witness ==
  /\ reportWritten
  /\ total = 2
  /\ publishers[1] # <<>>
  /\ attempted = {1, 2}
  /\ captured = {2}

\* C2: a failure at any step of one subject's processing, the work around
\* the capture included, is caught: it never makes the run fail, and the
\* session stays open while subjects are being processed.
C2_FailureIsolated ==
  /\ failure # "json"
  /\ pc \in {"loop", "goto", "evaluate", "type", "click", "wait", "screenshot"}
       => browser = "open"

\* C3: the Screenshot cell of row k holds a hyperlink if and only if a
\* snapshot was captured for subject k, and is empty otherwise.
C3_LinkIffCaptured ==
  \A k \in 1..Len(results) :
    (results[k].Screenshot # EmptyCell) <=> (k \in captured)

\* C4: a subject whose name normalizes to the empty string has zero matches:
\* its row has MatchCount 0 and MatchStatus CLEAR.
C4_EmptyNameIsClear ==
  \A k \in 1..Len(results) :
    normalizeText(publishers[k]) = <<>> =>
      results[k].MatchCount = 0 /\ results[k].MatchStatus = "CLEAR"

\* the tokens of a normalized name: its maximal runs of non-space characters
TokenSet(n) ==
  { SubSeq(n, a, b) : <<a, b>> \in
      { ab \in (1..Len(n)) \X (1..Len(n)) :
          /\ ab[1] <= ab[2]
          /\ \A k \in ab[1]..ab[2] : n[k] # " "
          /\ ab[1] = 1 \/ n[ab[1] - 1] = " "
          /\ ab[2] = Len(n) \/ n[ab[2] + 1] = " " } }

IsPrefix(p, t) == Len(p) <= Len(t) /\ \A k \in 1..Len(p) : p[k] = t[k]

\* every token of the subject is a prefix of some token of the entry
FullCoverage(name, entry) ==
  \A p \in TokenSet(normalizeText(name)) :
    \E t \in TokenSet(entry.name) : IsPrefix(p, t)

\* C5: for a subject name with at least one token, searchName returns
\* exactly the entries every subject token is a prefix of some token of, in
\* corpus order, each with score 1.
C5_FullCoverageLaw ==
  (pc = "matchDone" /\ TokenSet(normalizeText(publishers[1])) # {}) =>
    LET covered == SelectSeq(screeningEntries,
                     LAMBDA e : FullCoverage(publishers[1], e))
    IN matches = [k \in 1..Len(covered) |->
                    [id |-> covered[k].id, matchedName |-> covered[k].name,
                     score |-> 1]]

\* C5 witness: a two-token subject against a two-entry corpus of which one
\* entry covers both tokens and the other covers only one
C5_Witness ==
  /\ pc = "matchDone"
  /\ Cardinality(TokenSet(normalizeText(publishers[1]))) = 2
  /\ Len(screeningEntries) = 2
  /\ Len(matches) = 1
  /\ \E k \in 1..2 :
       /\ ~FullCoverage(publishers[1], screeningEntries[k])
       /\ \E p \in TokenSet(normalizeText(publishers[1])) :
            \E t \in TokenSet(screeningEntries[k].name) : IsPrefix(p, t)

\* C6: once the run is over, a session that was acquired has been released
\* exactly once, whether the run completed or aborted after acquisition.
C6_SessionReleased ==
  (pc \in {"done", "failed"} /\ browser # "none") =>
    browser = "closed" /\ closes = 1

\* the terminal events written to the SSE connections
TerminalCount ==
  Cardinality(UNION { { <<c, k>> : k \in {j \in 1..Len(sseLog[c]) : sseLog[c][j].done} } :
                      c \in 1..MaxConns })

\* on every connection a terminal event is the last event, and the
\* connection is then ended and detached
TerminalIsLast ==
  \A c \in 1..MaxConns : \A k \in 1..Len(sseLog[c]) :
    sseLog[c][k].done =>
      k = Len(sseLog[c]) /\ conns[c] \in {"ended", "closed"} /\ currentSSE # c

\* C7 as stated: every completed run has put exactly one terminal event on
\* the progress channel, and it is the last event there.
C7_ExactlyOneTerminal ==
  /\ pc = "done" => TerminalCount = 1
  /\ TerminalIsLast

\* C7 amended: at most one terminal event is written, only by a run that
\* completed; it is written exactly when a consumer is attached at that
\* moment (else it is dropped), and it is the last event of its connection.
C7_TerminalOnceIfAttached ==
  /\ [](TerminalCount <= 1 /\ (TerminalCount = 1 => pc = "done") /\ TerminalIsLast)
  /\ [][(pc = "zip" /\ pc' = "done") =>
          TerminalCount' = IF currentSSE # 0 THEN 1 ELSE 0]_vars

\* C7 witness: a completed run whose consumer received progress events and
\* then the terminal event
C7_Witness ==
  /\ pc = "done"
  /\ \E c \in 1..MaxConns :
       /\ Len(sseLog[c]) > 2
       /\ sseLog[c][Len(sseLog[c])].done

\* C8 as stated: the current field of successive progress events strictly
\* increases.
C8_StrictlyIncreasing ==
  \A k \in 1..(Len(emitted) - 1) : emitted[k].current < emitted[k + 1].current

\* C8 amended: each subject emits two progress events carrying its ordinal,
\* so the current fields are 1,1,2,2,..,total,total in order: they never
\* decrease, and a consumer sees them in that order.
C8_TwoEventsPerSubject ==
  /\ \A k \in 1..Len(emitted) :
       emitted[k] = [done |-> FALSE, current |-> (k + 1) \div 2, total |-> total]
  /\ ReportBuilding => Len(emitted) = 2 * total
  /\ \A c \in 1..MaxConns : \A k \in 1..(Len(sseLog[c]) - 1) :
       sseLog[c][k + 1].done \/
         /\ sseLog[c][k].current <= sseLog[c][k + 1].current
         /\ sseLog[c][k + 1].current <= sseLog[c][k].current + 1

\* C8 witness: a completed run of two subjects whose consumer received all
\* four progress events
C8_Witness ==
  /\ pc = "done"
  /\ total = 2
  /\ \E c \in 1..MaxConns : Len(sseLog[c]) = 5

\* C9: emission never fails the pipeline and never changes the outcome: no
\* run aborts because of an emission, and every subject with a row had its
\* capture attempted whatever the emission did.
C9_EmissionNeverAffectsRun ==
  /\ failure # "emit"
  /\ \A k \in 1..Len(results) : k \in attempted

\* the reference folder has no .csv file
NoQualifyingFiles == \A k \in 1..Len(csvFolder) : ~csvFolder[k].csv

\* no cell of a .csv file is non-empty after normalization
NoEntryRemains ==
  \A k \in 1..Len(csvFolder) :
    csvFolder[k].csv =>
      \A j \in 1..Len(csvFolder[k].cells) :
        normalizeText(csvFolder[k].cells[j]) = <<>>

\* C10: without a qualifying file, or without a non-empty entry, the run
\* fails before any subject is processed: no progress event, no session,
\* no row, no artifact and no report.
C10_NoCorpusAbortsEarly ==
  (NoQualifyingFiles \/ NoEntryRemains) =>
    /\ pc \in {"upload", "load", "rejected", "failed"}
    /\ pc = "failed" => failure = "config" /\ response = "500"
    /\ emitted = <<>>
    /\ \A c \in 1..MaxConns : sseLog[c] = <<>>
    /\ browser = "none"
    /\ i = 0 /\ results = <<>>
    /\ attempted = {} /\ captured = {} /\ jsonSaved = {}
    /\ ~reportWritten

\* C10 witness: a folder with a .csv file whose cells all normalize to the
\* empty string made a run with subjects fail
C10_Witness ==
  /\ pc = "failed"
  /\ failure = "config"
  /\ ~NoQualifyingFiles
  /\ total > 0

\* C11: when the browser launch or the page creation fails, the run fails
\* fatally: runChecker rejects and the upload is answered with an error, no
\* subject is processed, no row is built and no report is written.
C11_SessionInitFailureIsFatal ==
  failure \in {"launch", "newPage"} =>
    /\ pc = "failed"
    /\ response = "500"
    /\ i = 0 /\ results = <<>>
    /\ emitted = <<>>
    /\ attempted = {} /\ captured = {} /\ jsonSaved = {}
    /\ ~reportWritten

\* C11 witness: page creation failed in a run with subjects and a corpus
C11_Witness ==
  /\ failure = "newPage"
  /\ total > 0
  /\ Len(screeningEntries) > 0
  /\ browser = "open"

\* the phases of subjects 1..n, each subject's match, capture and row push
RECURSIVE sequentialPhases(_)
sequentialPhases(n) ==
  IF n = 0 THEN <<>>
  ELSE sequentialPhases(n - 1) \o << <<"match", n>>, <<"capture", n>>, <<"row", n>> >>

IsPrefixOf(p, t) == Len(p) <= Len(t) /\ SubSeq(t, 1, Len(p)) = p

\* C12: each subject goes through match, one capture attempt and row push,
\* each exactly once and in that order, and all three are over for subject k
\* before any of them starts for subject k + 1: the phases run so far are an
\* initial part of match 1, capture 1, row 1, match 2, capture 2, row 2, ..
C12_StrictlySequential ==
  /\ IsPrefixOf(phases, sequentialPhases(total))
  /\ ReportBuilding => phases = sequentialPhases(total)

\* the steps of takeScreenshot in the order of lines 78-93
SessionOrder == <<"goto", "evaluate", "type", "click", "wait", "screenshot">>

\* C13: a results panel that does not appear within the wait is no capture
\* failure: takeScreenshot goes on to the snapshot with no row pushed, and
\* unless the snapshot itself rejects it completes normally and the subject
\* has its artifact.
C13_TimeoutIsNotAFailure ==
  /\ [](waited = "timeout" =>
         /\ pc = "screenshot"
         /\ sessionLog = SessionOrder
         /\ i + 1 \notin captured
         /\ Len(results) = i)
  /\ [][(pc = "screenshot" /\ waited = "timeout") =>
          \/ sessionLog' = <<"catch">>
          \/ /\ failure' = "none"
             /\ i' = i + 1
             /\ i + 1 \in captured'
             /\ \E k \in 1..Len(written') :
                  written'[k] = screenshotFile(publishers[i + 1], i + 1)]_vars

\* C13 witness: subject 1 is captured and the wait of subject 2 has timed
\* out
C13_Witness ==
  /\ waited = "timeout"
  /\ pc = "screenshot"
  /\ i = 1
  /\ 1 \in captured

\* C14: in every row MatchStatus is MATCH exactly when MatchCount > 0 and
\* CLEAR otherwise, MatchCount being the number of matches searchName
\* returned for the row's subject.
C14_StatusIffCount ==
  \A k \in 1..Len(results) :
    /\ results[k].MatchStatus \in {"MATCH", "CLEAR"}
    /\ results[k].MatchStatus = "MATCH" <=> results[k].MatchCount > 0
    /\ results[k].MatchCount = Len(searchName(publishers[k], screeningEntries))

\* C14 witness: a report with a MATCH row and a CLEAR row of a non-empty name
C14_Witness ==
  /\ ReportBuilding
  /\ \E k, l \in 1..Len(results) :
       /\ results[k].MatchStatus = "MATCH"
       /\ results[l].MatchStatus = "CLEAR"
       /\ results[l].Publisher # <<>>

\* ------------------------------------------------ long Matches strings
\* The cell of one match is its name followed by " (score: 1.00)"; the
\* cells are joined by "; ".
matchSuffixLen == Len(matchesString(<<[matchedName |-> <<>>, score |-> 1]>>))
matchJoinLen ==
  Len(matchesString(<<[matchedName |-> <<>>, score |-> 1],
                      [matchedName |-> <<>>, score |-> 1]>>)) - 2 * matchSuffixLen

\* name lengths that put one match, or two equal ones, just below, at and
\* just above MAX_CELL_LENGTH
TruncLengths ==
  LET one == MAX_CELL_LENGTH - matchSuffixLen
      two == (MAX_CELL_LENGTH - 2 * matchSuffixLen - matchJoinLen) \div 2
  IN {1, two - 1, two, two + 1, one - 1, one, one + 1}

\* a one-word cell of n letters: normalizeText leaves it as it is
Letters(n) == [k \in 1..n |-> "A"]

\* the run after loadCSVFolder (line 104) read a file of one-word cells, with
\* one subject every entry matches
TruncInit ==
  /\ hasFile = TRUE
  /\ \E ls \in SeqsUpTo(TruncLengths, MaxCorpus) :
       /\ ls # <<>>
       /\ csvFolder = <<[csv |-> TRUE,
                         cells |-> [k \in 1..Len(ls) |-> Letters(ls[k])]]>>
       /\ screeningEntries =
            [k \in 1..Len(ls) |->
               [id |-> k, name |-> Letters(ls[k]),
                words |-> <<Letters(ls[k])>>]]
  /\ publishers = <<Letters(1)>>
  /\ pc = "matchSearch"
  /\ failure = "none"
  /\ i = 0
  /\ matches = <<>>
  /\ results = <<>>
  /\ browser = "none"
  /\ closes = 0
  /\ attempted = {}
  /\ captured = {}
  /\ jsonSaved = {}
  /\ reportWritten = FALSE
  /\ emitted = <<>>
  /\ currentSSE = 0
  /\ conns = [c \in 1..MaxConns |-> "unopened"]
  /\ sseLog = [c \in 1..MaxConns |-> <<>>]
  /\ response = "none"
  /\ phases = <<>>
  /\ sessionLog = <<>>
  /\ waited = "none"
  /\ field = <<>>
  /\ submitted = <<>>
  /\ written = <<>>
  /\ normalized = <<>>

\* checker.js lines 155-156 and 184-198 on the long entries
TruncSearch == MatchSearch

TruncNext == TruncSearch

SpecTruncate == TruncInit /\ [][TruncNext]_vars

\* the joined string of line 184-186 before the length test
C15_Joined == matchesStringMax(matches, (Len(matches) + 1) * MAX_CELL_LENGTH)

C15_EndsInMarker(cell) ==
  /\ Len(cell) >= Len(TruncationMarker)
  /\ SubSeq(cell, Len(cell) - Len(TruncationMarker) + 1, Len(cell))
       = TruncationMarker

\* C15: a Matches string longer than MAX_CELL_LENGTH is stored as its first
\* MAX_CELL_LENGTH characters followed by the truncation marker, so it is
\* MAX_CELL_LENGTH + marker-length long and ends in the marker; a string not
\* longer is stored unchanged, without marker.
C15_TruncationLaw ==
  pc = "matchDone" =>
    LET cell == results[1].Matches
    IN IF Len(C15_Joined) > MAX_CELL_LENGTH
       THEN /\ Len(cell) = MAX_CELL_LENGTH + Len(TruncationMarker)
            /\ SubSeq(cell, 1, MAX_CELL_LENGTH)
                 = SubSeq(C15_Joined, 1, MAX_CELL_LENGTH)
            /\ C15_EndsInMarker(cell)
       ELSE /\ cell = C15_Joined
            /\ ~C15_EndsInMarker(cell)

\* C15 witness: two matches whose joined string is one character too long
\* were cut
C15_Witness ==
  /\ pc = "matchDone"
  /\ Len(matches) = 2
  /\ Len(C15_Joined) > MAX_CELL_LENGTH
  /\ Len(results[1].Matches) = MAX_CELL_LENGTH + Len(TruncationMarker)

\* ------------------------------------------------ normalizeText applied twice
NormalizeChars == {"a", "B", " ", "\t", "-", "."}

\* an input value of normalizeText: null, the empty string, or a string of
\* letters, whitespace and stripped punctuation
NormalizeInit ==
  /\ \E x \in SeqsUpTo(NormalizeChars, MaxNameLen) \cup {Null} :
       normalized = <<x>>
  /\ hasFile = FALSE
  /\ csvFolder = <<>>
  /\ publishers = <<>>
  /\ pc = "normalize"
  /\ failure = "none"
  /\ screeningEntries = <<>>
  /\ i = 0
  /\ matches = <<>>
  /\ results = <<>>
  /\ browser = "none"
  /\ closes = 0
  /\ attempted = {}
  /\ captured = {}
  /\ jsonSaved = {}
  /\ reportWritten = FALSE
  /\ emitted = <<>>
  /\ currentSSE = 0
  /\ conns = [c \in 1..MaxConns |-> "unopened"]
  /\ sseLog = [c \in 1..MaxConns |-> <<>>]
  /\ response = "none"
  /\ phases = <<>>
  /\ sessionLog = <<>>
  /\ waited = "none"
  /\ field = <<>>
  /\ submitted = <<>>
  /\ written = <<>>

\* checker.js lines 17-25: normalizeText applied to the last value
Normalize ==
  /\ pc = "normalize"
  /\ Len(normalized) < 3
  /\ normalized' = Append(normalized, normalizeText(normalized[Len(normalized)]))
  /\ UNCHANGED <<inputVars, runVars, traceVars, currentSSE, conns, sseLog>>

NormalizeNext == Normalize

SpecNormalize == NormalizeInit /\ [][NormalizeNext]_vars

\* C16: normalizeText is idempotent: normalizeText(normalizeText(x)) =
\* normalizeText(x) for every input x, null and the empty string (both give
\* the empty string) included.
C16_Idempotent ==
  /\ Len(normalized) >= 2 /\ normalized[1] \in {Null, <<>>} =>
       normalized[2] = <<>>
  /\ Len(normalized) = 3 => normalized[3] = normalized[2]

\* C16 witness: normalizeText applied twice to an input with whitespace and
\* punctuation that the first application changed to a non-empty string
C16_Witness ==
  /\ Len(normalized) = 3
  /\ \E k \in 1..Len(normalized[1]) : normalized[1][k] \in Whitespace
  /\ \E k \in 1..Len(normalized[1]) : normalized[1][k] \in Punctuation
  /\ normalized[2] # <<>>
  /\ normalized[2] # normalized[1]

\* C17: the steps of a capture are issued in the order navigate, clear, type,
\* click, wait, snapshot, and the text the click submits for a subject is
\* that subject's raw name alone, whatever an earlier subject typed.
C17_FixedOrderCleanField ==
  /\ sessionLog = <<"catch">> \/ IsPrefixOf(sessionLog, SessionOrder)
  /\ pc \in {"goto", "evaluate", "type", "click", "wait", "screenshot"} =>
       sessionLog # <<>> /\ sessionLog[Len(sessionLog)] = pc
  /\ pc \in {"wait", "screenshot"} => submitted = publishers[i + 1]

\* C17 witness: subject 1 was captured, and the click for subject 2, of
\* another name, has submitted its text in the same session
C17_Witness ==
  /\ i = 1
  /\ pc = "wait"
  /\ 1 \in captured
  /\ publishers[1] # publishers[2]
  /\ submitted = publishers[2]

\* C18: within a run no two subjects share an artifact path, equal names or
\* names with the same sanitized form included: the JSON and screenshot
\* paths of any two subjects differ, every file written belongs to one
\* subject only, and no two rows link to the same screenshot.
C18_ArtifactPathsUnique ==
  /\ \A k, l \in 1..total :
       k # l =>
         {jsonFile(publishers[k], k).path,
          screenshotFile(publishers[k], k).path}
           \cap {jsonFile(publishers[l], l).path,
                 screenshotFile(publishers[l], l).path} = {}
  /\ \A a, b \in 1..Len(written) :
       written[a].path = written[b].path => written[a].ord = written[b].ord
  /\ \A k, l \in 1..Len(results) :
       k # l => results[k].Screenshot.hyperlink # results[l].Screenshot.hyperlink

\* C18 witness: two subjects of different names with the same sanitized form
\* both have their JSON file and their screenshot written
C18_Witness ==
  /\ total = 2
  /\ publishers[1] # publishers[2]
  /\ safeName(publishers[1]) = safeName(publishers[2])
  /\ {jsonFile(publishers[1], 1), screenshotFile(publishers[1], 1),
      jsonFile(publishers[2], 2), screenshotFile(publishers[2], 2)}
       \subseteq Range(written)

\* the connection of the most recent GET /upload-progress
latestConn ==
  CHOOSE c \in 0..MaxConns :
    /\ c # 0 => conns[c] # "unopened"
    /\ \A d \in (c + 1)..MaxConns : conns[d] = "unopened"

\* C19: the attached consumer is the most recently connected one whenever
\* that one is still open; the close of an older connection never detaches
\* a newer one.
C19_LatestOpenStaysAttached ==
  (latestConn # 0 /\ conns[latestConn] = "open") => currentSSE = latestConn
====
